---- MODULE Spec2Model ----
(***************************************************************************)
(* Model of ml2app.py, the Streamlit dashboard "Crypto Wallet Forensics".  *)
(*                                                                         *)
(* Three specifications share the module:                                  *)
(*   SpecFeatures  get_features as a pure function of (address, chain)     *)
(*   SpecScore     the deviation score and status of a 2-D projection      *)
(*   Spec          one browser session of the app: every user action       *)
(*                 re-runs the script top to bottom                        *)
(*                                                                         *)
(* Floats are modelled in binary fixed point with FracBits fractional      *)
(* bits: the float v is the integer v * One, One = 2^FracBits.  Strings    *)
(* are sequences of one-character strings.                                 *)
(***************************************************************************)
EXTENDS Integers, Sequences, FiniteSets, TLC

VARIABLES
    \* --- SpecFeatures: one call of get_features
    address,        \* argument `address`
    chain_input,    \* argument `chain_input`
    features,       \* the returned row, or NoValue before the call
    \* --- SpecScore: the score of one projected point
    user_x,         \* pca_coords[0][0], fixed point
    user_y,         \* pca_coords[0][1], fixed point
    verdict,        \* [dist, status, color], or NoValue before the computation
    \* --- Spec: the app
    theme,          \* st.session_state.theme, Unset while the key is absent
    toggles,        \* number of toggle_theme calls so far (history)
    file,           \* what unsupervised_pack.pkl is on disk right now
    cache,          \* st.cache_resource entry of load_artifacts
    reads,          \* number of times the file was opened and read (history)
    failed,         \* how the latest failed load ended: "no", "raised", "none" (history)
    chain_choice,   \* widget state of the "Network" selectbox
    user_address,   \* widget state of the "Address" text input
    page,           \* what the last script run did and rendered
    prev            \* the analysis rendered before the one in `page` (history)

featureVars == <<address, chain_input, features>>
scoreVars   == <<user_x, user_y, verdict>>
appVars     == <<theme, toggles, file, cache, reads, failed,
                 chain_choice, user_address, page, prev>>
vars        == <<featureVars, scoreVars, appVars>>

-----------------------------------------------------------------------------
(* Bounds and constants *)

MaxLen == 3                 \* longest address drawn in SpecFeatures
FracBits == 10              \* fractional bits of the fixed-point floats
CoordMax == 16              \* SpecScore draws coordinates from -CoordMax..CoordMax quarters
MaxToggles == 3             \* toggle_theme calls per behaviour
MaxReads == 2               \* file reads counted per behaviour
Threshold == 3              \* `dist < 3`

One == 2 ^ FracBits

NoValue == [kind |-> "NoValue"]
Unset == "Unset"

Alphabet == {"1", "3", "b", "c", "0", "x"}
Chains == {"Bitcoin", "Ethereum"}       \* options of the selectbox

RECURSIVE StringsOfLen(_)
StringsOfLen(n) ==
    IF n = 0 THEN {<<>>}
    ELSE {Append(s, ch) : s \in StringsOfLen(n - 1), ch \in Alphabet}

Strings == UNION {StringsOfLen(n) : n \in 0..MaxLen}

-----------------------------------------------------------------------------
(* get_features *)

\* set(address)
CharSet(s) == {s[i] : i \in 1..Len(s)}

\* address.count(x)
Count(s, x) == Cardinality({i \in 1..Len(s) : s[i] = x})

\* str.startswith
StartsWith(s, prefix) ==
    /\ Len(s) >= Len(prefix)
    /\ SubSeq(s, 1, Len(prefix)) = prefix

\* math.log2 on a fixed-point argument in (0, 1]: shift the argument into
\* [1, 2), counting the shifts, then produce the fraction bit by bit from
\* repeated squaring.  The result is <= 0, and = 0 only for the argument 1.
RECURSIVE Shifts(_)
Shifts(p) == IF p >= One THEN 0 ELSE 1 + Shifts(2 * p)

RECURSIVE FracLog(_, _)
FracLog(y, k) ==
    IF k > FracBits THEN 0
    ELSE LET sq == (y * y) \div One
         IN  IF sq >= 2 * One
             THEN One \div (2 ^ k) + FracLog(sq \div 2, k + 1)
             ELSE FracLog(sq, k + 1)

Log2(p) ==
    LET e == Shifts(p)
    IN  FracLog(p * (2 ^ e), 1) - e * One

\* p_x = address.count(x) / len(address)
P_x(s, x) == (Count(s, x) * One) \div Len(s)

\* Term with the leading minus sign dropped
TermUnsigned(s, x) == (P_x(s, x) * Log2(P_x(s, x))) \div One

\* - p_x * math.log2(p_x)
Term(s, x) == ((0 - P_x(s, x)) * Log2(P_x(s, x))) \div One

\* the characters the loop body runs for: none when `if address:` is false
LoopChars(s) == IF s # <<>> THEN CharSet(s) ELSE {}

RECURSIVE SumTerms(_, _)
SumTerms(s, S) ==
    IF S = {} THEN 0
    ELSE LET x == CHOOSE c \in S : TRUE
         IN  Term(s, x) + SumTerms(s, S \ {x})

\* entropy = 0; if address: for x in set(address): entropy += ...
Entropy(s) == SumTerms(s, LoopChars(s))

\* ZeroDivisionError: some executed division has len(address) = 0
DividesByZero(s) == \E x \in LoopChars(s) : Len(s) = 0

\* BtcType with the 'bc1' test relaxed to 'b'
BtcTypeLoosePrefix(s) ==
    IF StartsWith(s, <<"1">>) THEN 0
    ELSE IF StartsWith(s, <<"3">>) THEN 1
    ELSE IF StartsWith(s, <<"b">>) THEN 2
    ELSE 3

\* btc_type = 3; if ... startswith('1') ... elif '3' ... elif 'bc1'
BtcType(s) ==
    IF StartsWith(s, <<"1">>) THEN 0
    ELSE IF StartsWith(s, <<"3">>) THEN 1
    ELSE IF StartsWith(s, <<"b", "c", "1">>) THEN 2
    ELSE 3

ChainVal(c) == IF c = "Ethereum" THEN 1 ELSE 0

Raised == [kind |-> "row", raised |-> TRUE]

Row(s, c) ==
    [kind     |-> "row",
     raised   |-> FALSE,
     length   |-> Len(s),
     entropy  |-> Entropy(s),
     chain    |-> ChainVal(c),
     btc_type |-> BtcType(s)]

\* get_features with the division by len(address) hoisted out of the
\* `if address:` guard
get_features_hoisted(s, c) ==
    IF Len(s) = 0 THEN Raised ELSE Row(s, c)

get_features(s, c) ==
    IF DividesByZero(s) THEN Raised
    ELSE Row(s, c)

-----------------------------------------------------------------------------
(* SpecFeatures *)

AppIdle ==
    /\ theme = Unset /\ toggles = 0 /\ file = "absent" /\ cache = NoValue
    /\ reads = 0 /\ failed = "no" /\ chain_choice = "Bitcoin"
    /\ user_address = <<>> /\ page = NoValue /\ prev = NoValue

ScoreIdle == user_x = 0 /\ user_y = 0 /\ verdict = NoValue

FeaturesIdle == address = <<>> /\ chain_input = "Bitcoin" /\ features = NoValue

InitFeatures ==
    /\ address \in Strings
    /\ chain_input \in Chains
    /\ features = NoValue
    /\ ScoreIdle /\ AppIdle

CallGetFeatures ==
    /\ features = NoValue
    /\ features' = get_features(address, chain_input)
    /\ UNCHANGED <<address, chain_input, scoreVars, appVars>>

NextFeatures == CallGetFeatures

SpecFeatures == InitFeatures /\ [][NextFeatures]_vars

Returned == features.kind = "row"

\* C1: get_features returns btc_type 0 for an address starting with "1",
\* 1 for "3", 2 for "bc1" and 3 for every other address (the empty one and
\* every "0x..." one included), whatever the chain selector is.
C1_BtcTypeByPrefix ==
    Returned =>
        /\ ~features.raised
        /\ features.btc_type =
              CASE address # <<>> /\ address[1] = "1" -> 0
                [] address # <<>> /\ address[1] = "3" -> 1
                [] /\ Len(address) >= 3
                   /\ address[1] = "b" /\ address[2] = "c" /\ address[3] = "1" -> 2
                [] OTHER -> 3

C1_Witness ==
    /\ Returned
    /\ address = <<"b", "c", "1">>
    /\ chain_input = "Ethereum"
    /\ features.btc_type = 2

\* C2: for a non-empty address the entropy is >= 0, and it is 0 exactly when
\* the address has one distinct character.
C2_EntropySign ==
    Returned /\ address # <<>> =>
        /\ ~features.raised
        /\ features.entropy >= 0
        /\ features.entropy = 0 <=> Cardinality({address[i] : i \in 1..Len(address)}) = 1

C2_Witness ==
    /\ Returned
    /\ address = <<"x", "x">>
    /\ features.entropy = 0

\* C3: for the empty address get_features returns, without dividing by the
\* zero length, entropy 0 and length 0, for either chain selector.
C3_EmptyAddress ==
    Returned /\ address = <<>> =>
        /\ ~features.raised
        /\ features.entropy = 0
        /\ features.length = 0

C3_Witness ==
    /\ Returned
    /\ address = <<>>
    /\ chain_input = "Ethereum"
    /\ ~features.raised

-----------------------------------------------------------------------------
(* The deviation score *)

RECURSIVE SqrtSearch(_, _, _)
SqrtSearch(n, lo, hi) ==
    IF lo = hi THEN lo
    ELSE LET mid == (lo + hi + 1) \div 2
         IN  IF mid * mid <= n THEN SqrtSearch(n, mid, hi)
             ELSE SqrtSearch(n, lo, mid - 1)

\* math.sqrt of a fixed-point square: the largest r with r * r <= n
Sqrt(n) == SqrtSearch(n, 0, 2 ^ 15)

\* dist = math.sqrt(user_x ** 2 + user_y ** 2)
Dist(x, y) == Sqrt(x * x + y * y)

\* Status with the comparison written `dist <= 3`
StatusInclusive(dist) == IF dist <= Threshold * One THEN "Normal" ELSE "Anomaly"

\* status = "Normal" if dist < 3 else "Anomaly"
Status(dist) == IF dist < Threshold * One THEN "Normal" ELSE "Anomaly"

\* color = "normal" if dist < 3 else "inverse"
Color(dist) == IF dist < Threshold * One THEN "normal" ELSE "inverse"

Score(x, y) ==
    [kind   |-> "score",
     dist   |-> Dist(x, y),
     status |-> Status(Dist(x, y)),
     color  |-> Color(Dist(x, y))]

Quarter == One \div 4

InitScore ==
    /\ user_x \in {i * Quarter : i \in (0 - CoordMax)..CoordMax}
    /\ user_y \in {i * Quarter : i \in (0 - CoordMax)..CoordMax}
    /\ verdict = NoValue
    /\ FeaturesIdle /\ AppIdle

ComputeScore ==
    /\ verdict = NoValue
    /\ verdict' = Score(user_x, user_y)
    /\ UNCHANGED <<user_x, user_y, featureVars, appVars>>

NextScore == ComputeScore

SpecScore == InitScore /\ [][NextScore]_vars

Scored == verdict.kind = "score"

\* C4: the deviation score is >= 0, the status is "Anomaly" exactly when the
\* score is >= 3.0 and "Normal" exactly when it is < 3.0.
C4_ScoreAndStatus ==
    Scored =>
        /\ verdict.dist >= 0
        /\ verdict.status = "Anomaly" <=> verdict.dist >= 3 * One
        /\ verdict.status = "Normal" <=> verdict.dist < 3 * One
        /\ verdict.dist >= 3 * One <=> user_x * user_x + user_y * user_y >= 9 * One * One

C4_Witness ==
    /\ Scored
    /\ user_x = 3 * One /\ user_y = 0
    /\ verdict.dist = 3 * One
    /\ verdict.status = "Anomaly"

-----------------------------------------------------------------------------
(* The model bundle: artifacts['scaler'], ['kmeans'], ['pca'] *)

None == [kind |-> "None"]

\* Two fitted bundles the training script can have written.  All numbers are
\* fixed point.  scaler: mean and scale; pca: mean and two components;
\* kmeans: the centroids.
H == One \div 2

BundleOf(id) ==
    IF id = "B1"
    THEN [kind |-> "bundle", id |-> "B1",
          mean       |-> <<0, 0, 0, 0>>,
          scale      |-> <<One, One, One, One>>,
          pmean      |-> <<0, 0, 0, 0>>,
          components |-> << <<One, 0, 0, 0>>, <<0, 0, One, 0>> >>,
          centroids  |-> << <<2 * One, One, 0, 0>>, <<3 * One, One, One, 3 * One>> >>]
    ELSE [kind |-> "bundle", id |-> "B2",
          mean       |-> <<2 * One, One, H, One + H>>,
          scale      |-> <<2 * One, One, One, 2 * One>>,
          pmean      |-> <<0, H, 0, 0>>,
          components |-> << <<H, H, 0 - H, H>>, <<0 - H, H, H, H>> >>,
          centroids  |-> << <<0, 0, 0, 0>>, <<H, One, H, 0 - H>>, <<0 - H, 0, H, H>> >>]

BundleIds == {"B1", "B2"}
FileStates == {"absent", "locked", "corrupt"} \cup BundleIds

\* the row as the float vector handed to the scaler
Vector(row) == <<row.length * One, row.entropy, row.chain * One, row.btc_type * One>>

\* scaler.transform(raw_features)
ScalerTransform(b, v) ==
    [i \in 1..4 |-> ((v[i] - b.mean[i]) * One) \div b.scale[i]]

Dot(u, w) ==
    (u[1] * w[1]) \div One + (u[2] * w[2]) \div One
        + (u[3] * w[3]) \div One + (u[4] * w[4]) \div One

\* pca.transform(scaled_features)[0]
PcaTransform(b, v) ==
    LET c == [i \in 1..4 |-> v[i] - b.pmean[i]]
    IN  <<Dot(c, b.components[1]), Dot(c, b.components[2])>>

SqDist(u, w) ==
    (u[1] - w[1]) * (u[1] - w[1]) + (u[2] - w[2]) * (u[2] - w[2])
        + (u[3] - w[3]) * (u[3] - w[3]) + (u[4] - w[4]) * (u[4] - w[4])

\* kmeans.predict(scaled_features)[0]: the first nearest centroid, 0-based
KmeansPredict(b, v) ==
    LET n == Len(b.centroids)
        best == CHOOSE k \in 1..n :
                    /\ \A j \in 1..n : SqDist(v, b.centroids[k]) <= SqDist(v, b.centroids[j])
                    /\ \A j \in 1..(k - 1) : SqDist(v, b.centroids[j]) > SqDist(v, b.centroids[k])
    IN  best - 1

-----------------------------------------------------------------------------
(* The script *)

\* toggle_theme that only ever switches to 'Light'
toggle_theme_stuck(t) == "Light"

toggle_theme(t) == IF t = "Dark" THEN "Light" ELSE "Dark"

\* the colour palette chosen from the theme
Palette(t) ==
    IF t = "Dark"
    THEN [bg_color |-> "#0e1117", text_color |-> "#ffffff", chart_template |-> "plotly_dark"]
    ELSE [bg_color |-> "#ffffff", text_color |-> "#000000", chart_template |-> "plotly_white"]

\* the body of load_artifacts with the except clause removed
load_body_no_except(f) ==
    CASE f \in {"absent", "locked"} -> [how |-> "raised", value |-> NoValue, read |-> 0]
      [] f = "corrupt" -> [how |-> "raised", value |-> NoValue, read |-> 1]
      [] OTHER -> [how |-> "bundle", value |-> BundleOf(f), read |-> 1]

\* the body of load_artifacts: open() raises FileNotFoundError for an absent
\* file, which is caught, and another OSError for a file that cannot be
\* opened, which is not; pickle.load raises on a file that is no pickle
load_body(f) ==
    CASE f = "absent" -> [how |-> "none", value |-> None, read |-> 0]
      [] f = "locked" -> [how |-> "raised", value |-> NoValue, read |-> 0]
      [] f = "corrupt" -> [how |-> "raised", value |-> NoValue, read |-> 1]
      [] OTHER -> [how |-> "bundle", value |-> BundleOf(f), read |-> 1]

Stored(b, c) ==
    [how |-> b.how, value |-> b.value, read |-> b.read,
     cache |-> IF b.how = "raised" THEN c ELSE b.value]

\* load_artifacts without the memoisation: the body runs at every call
load_artifacts_uncached(c, f) == Stored(load_body(f), c)

\* @st.cache_resource: the body runs when there is no entry; a returned
\* value (None included) becomes the entry, an exception leaves none
load_artifacts(c, f) ==
    IF c # NoValue
    THEN [how |-> "hit", value |-> c, read |-> 0, cache |-> c]
    ELSE Stored(load_body(f), c)

\* the "Math" and "Metrics" part of the results block
Analysis(t, b, addr, chain) ==
    LET raw_features == get_features(addr, chain)
        scaled_features == ScalerTransform(b, Vector(raw_features))
        pca_coords == PcaTransform(b, scaled_features)
        score == Score(pca_coords[1], pca_coords[2])
    IN  [kind           |-> "analysis",
         raw_features   |-> raw_features,
         cluster_id     |-> KmeansPredict(b, scaled_features),
         user_x         |-> pca_coords[1],
         user_y         |-> pca_coords[2],
         dist           |-> score.dist,
         status         |-> score.status,
         color          |-> score.color,
         chart_template |-> Palette(t).chart_template]

\* the results block without the `if user_address:` test
ResultsUnguarded(t, b, btn, addr, chain) ==
    IF btn
    THEN [stages  |-> <<"features", "inference", "render">>,
          outcome |-> "result",
          result  |-> Analysis(t, b, addr, chain)]
    ELSE [stages |-> <<>>, outcome |-> "idle", result |-> NoValue]

\* the results block with the theme leaking into the status threshold
ResultsThemed(t, b, btn, addr, chain) ==
    IF btn /\ addr # <<>>
    THEN [stages  |-> <<"features", "inference", "render">>,
          outcome |-> "result",
          result  |-> [Analysis(t, b, addr, chain) EXCEPT
                          !.status = IF t = "Light" THEN "Normal" ELSE @]]
    ELSE IF btn
    THEN [stages |-> <<"info">>, outcome |-> "info", result |-> NoValue]
    ELSE [stages |-> <<>>, outcome |-> "idle", result |-> NoValue]

\* if analyze_btn: if user_address: ... else: st.info(...)
Results(t, b, btn, addr, chain) ==
    IF btn /\ addr # <<>>
    THEN [stages  |-> <<"features", "inference", "render">>,
          outcome |-> "result",
          result  |-> Analysis(t, b, addr, chain)]
    ELSE IF btn
    THEN [stages |-> <<"info">>, outcome |-> "info", result |-> NoValue]
    ELSE [stages |-> <<>>, outcome |-> "idle", result |-> NoValue]

\* the script below the artifact load with st.stop() removed: after the error
\* message the run goes on to artifacts['kmeans'], which raises on None
BelowLoadUnguarded(t, ld, btn, addr, chain) ==
    IF ld.how = "raised"
    THEN [stages |-> <<>>, outcome |-> "exception", result |-> NoValue]
    ELSE IF ld.value = None
    THEN [stages |-> <<"error">>, outcome |-> "exception", result |-> NoValue]
    ELSE LET r == Results(t, ld.value, btn, addr, chain)
         IN  [stages  |-> <<"layout">> \o r.stages \o <<"footer">>,
              outcome |-> r.outcome,
              result  |-> r.result]

\* the script from `artifacts = load_artifacts()` on: an exception ends the
\* run, a falsy artifacts value shows the error and stops, otherwise the
\* layout, the results block and the footer follow
BelowLoad(t, ld, btn, addr, chain) ==
    IF ld.how = "raised"
    THEN [stages |-> <<>>, outcome |-> "exception", result |-> NoValue]
    ELSE IF ld.value = None
    THEN [stages |-> <<"error", "stop">>, outcome |-> "load_error", result |-> NoValue]
    ELSE LET r == Results(t, ld.value, btn, addr, chain)
         IN  [stages  |-> <<"layout">> \o r.stages \o <<"footer">>,
              outcome |-> r.outcome,
              result  |-> r.result]

\* one run of the script, top to bottom, for session theme t (Unset in a new
\* session), the button value btn and the widget values addr and chain
Rerun(t, btn, addr, chain) ==
    LET th == IF t = Unset THEN "Dark" ELSE t
        ld == load_artifacts(cache, file)
        below == BelowLoad(th, ld, btn, addr, chain)
    IN  /\ reads + ld.read <= MaxReads
        /\ theme' = th
        /\ cache' = ld.cache
        /\ reads' = reads + ld.read
        /\ failed' = IF ld.how \in {"none", "raised"} THEN ld.how ELSE failed
        /\ chain_choice' = chain
        /\ user_address' = addr
        /\ page' = [kind         |-> "page",
                    theme        |-> th,
                    analyze_btn  |-> btn,
                    address      |-> addr,
                    chain        |-> chain,
                    load         |-> ld.how,
                    fileSeen     |-> IF ld.how = "hit" THEN "-" ELSE file,
                    failedBefore |-> failed,
                    stages       |-> <<"theme", "palette", "load">> \o below.stages,
                    outcome      |-> below.outcome,
                    result       |-> below.result]
        /\ prev' = IF page.kind = "page" /\ page.outcome = "result"
                   THEN [kind    |-> "prev",
                         theme   |-> page.theme,
                         address |-> page.address,
                         chain   |-> page.chain,
                         bundle  |-> cache.id,
                         result  |-> page.result]
                   ELSE prev

-----------------------------------------------------------------------------
(* Spec: the user's actions and the file system *)

Addresses == {<<>>, <<"1", "x">>, <<"0", "x", "0">>, <<"b", "c", "1">>}

\* the widgets are on the page only when the run got past the artifact guard
LayoutShown == page.kind = "page" /\ page.outcome \in {"idle", "info", "result"}

Init ==
    /\ theme = Unset
    /\ toggles = 0
    /\ file \in FileStates
    /\ cache = NoValue
    /\ reads = 0
    /\ failed = "no"
    /\ chain_choice = "Bitcoin"
    /\ user_address = <<>>
    /\ page = NoValue
    /\ prev = NoValue
    /\ FeaturesIdle /\ ScoreIdle

\* a browser tab opens the app: empty session state, widgets at their defaults
OpenSession ==
    /\ toggles' = 0
    /\ Rerun(Unset, FALSE, <<>>, "Bitcoin")
    /\ UNCHANGED <<file, featureVars, scoreVars>>

\* the sidebar button: the on_click callback, then the rerun
ToggleTheme ==
    /\ theme # Unset
    /\ toggles < MaxToggles
    /\ toggles' = toggles + 1
    /\ Rerun(toggle_theme(theme), FALSE, user_address, chain_choice)
    /\ UNCHANGED <<file, featureVars, scoreVars>>

SetAddress ==
    /\ LayoutShown
    /\ \E a \in Addresses \ {user_address} : Rerun(theme, FALSE, a, chain_choice)
    /\ UNCHANGED <<toggles, file, featureVars, scoreVars>>

SetChain ==
    /\ LayoutShown
    /\ \E c \in Chains \ {chain_choice} : Rerun(theme, FALSE, user_address, c)
    /\ UNCHANGED <<toggles, file, featureVars, scoreVars>>

Analyze ==
    /\ LayoutShown
    /\ Rerun(theme, TRUE, user_address, chain_choice)
    /\ UNCHANGED <<toggles, file, featureVars, scoreVars>>

\* the artifact file is written, replaced, damaged or removed on disk
FileChanges ==
    /\ \E f \in FileStates \ {file} : file' = f
    /\ UNCHANGED <<theme, toggles, cache, reads, failed, chain_choice,
                   user_address, page, prev, featureVars, scoreVars>>

Next ==
    \/ OpenSession
    \/ ToggleTheme
    \/ SetAddress
    \/ SetChain
    \/ Analyze
    \/ FileChanges

Spec == Init /\ [][Next]_vars

-----------------------------------------------------------------------------
(* Claims about the app *)

Ran == page.kind = "page"

Has(stage) == \E i \in 1..Len(page.stages) : page.stages[i] = stage

\* feature extraction, inference and render are all in the run, in this order
PipelineRan ==
    \E i \in 1..Len(page.stages) :
        /\ i + 2 <= Len(page.stages)
        /\ SubSeq(page.stages, i, i + 2) = <<"features", "inference", "render">>

\* C5 as claimed: whenever the body of load_artifacts runs on an absent or an
\* unreadable file, it returns None and raises nothing.
C5_Original ==
    Ran /\ page.fileSeen \in {"absent", "locked", "corrupt"} => page.load = "none"

\* C5: a load from an absent file returns None, which the script tests to
\* show the error and stop; a load from a file that is present but cannot be
\* opened or unpickled raises out of load_artifacts.
C5_AbsentYieldsNone ==
    Ran =>
        /\ page.fileSeen = "absent" =>
              page.load = "none" /\ cache = None /\ page.outcome = "load_error"
        /\ page.fileSeen \in {"locked", "corrupt"} =>
              page.load = "raised" /\ page.outcome = "exception"

C5_Witness ==
    /\ Ran
    /\ page.fileSeen = "absent"
    /\ page.load = "none"
    /\ page.stages = <<"theme", "palette", "load", "error", "stop">>

\* C6 as claimed: after any failed load, no later run reaches feature
\* extraction or inference.
C6_Original ==
    Ran /\ page.failedBefore # "no" => ~Has("features") /\ ~Has("inference")

\* C6: once load_artifacts has returned None, every later run takes the
\* cached None without running the body again, shows the load error and
\* stops before the layout, feature extraction and inference, whatever the
\* file has become since.
C6_NoneIsFinal ==
    Ran /\ page.failedBefore = "none" =>
        /\ page.load = "hit"
        /\ page.outcome = "load_error"
        /\ page.stages = <<"theme", "palette", "load", "error", "stop">>

C6_Witness ==
    /\ Ran
    /\ page.failedBefore = "none"
    /\ file \in BundleIds
    /\ page.theme = "Light"
    /\ page.outcome = "load_error"

\* C7 as claimed: the artifact file is read at most once in a process.
C7_Original == reads <= 1

\* C7: once load_artifacts has returned a value, no step opens the file again
\* and no step changes the cached value.
C7_CachedForGood ==
    [][cache # NoValue => cache' = cache /\ reads' = reads]_vars

C7_Witness ==
    /\ Ran
    /\ cache.kind = "bundle"
    /\ file # cache.id
    /\ page.load = "hit"
    /\ page.outcome = "result"
    /\ reads = 1

Computed(r) ==
    <<r.raw_features, r.cluster_id, r.user_x, r.user_y, r.dist, r.status, r.color>>

\* the analysis on the page and the analysis shown before it are of the same
\* query and bundle under the two themes
SameQueryOtherTheme ==
    /\ Ran /\ page.outcome = "result"
    /\ prev.kind = "prev"
    /\ prev.address = page.address
    /\ prev.chain = page.chain
    /\ prev.bundle = cache.id
    /\ prev.theme # page.theme

\* C8: two analyses of the same address and chain with the same bundle, one
\* in Dark and one in Light, give the same features, cluster id, coordinates,
\* deviation score and status; the chart template differs.
C8_ThemeBlind ==
    SameQueryOtherTheme =>
        /\ Computed(prev.result) = Computed(page.result)
        /\ prev.result.chart_template # page.result.chart_template

C8_Witness ==
    /\ SameQueryOtherTheme
    /\ page.theme = "Light"
    /\ page.result.status = "Anomaly"

\* C9 as claimed, for the Analyze action alone: every run the Analyze button
\* triggers with the bundle loaded runs feature extraction, inference and
\* render, whatever the address is.
C9_Original ==
    Ran /\ page.analyze_btn /\ page.outcome \notin {"exception", "load_error"} =>
        PipelineRan

\* C9: a run performs feature extraction, then inference, then render exactly
\* when it was triggered by the Analyze button with a non-empty address and
\* the bundle is loaded; Analyze with an empty address shows the prompt and
\* extracts no features.
C9_PipelineWhen ==
    Ran =>
        /\ PipelineRan <=>
              /\ page.analyze_btn
              /\ page.address # <<>>
              /\ cache.kind = "bundle"
        /\ ~PipelineRan => ~Has("features") /\ ~Has("inference") /\ ~Has("render")
        /\ page.analyze_btn /\ page.address = <<>> /\ cache.kind = "bundle" =>
              page.outcome = "info"

C9_Witness ==
    /\ Ran
    /\ page.analyze_btn
    /\ page.stages = <<"theme", "palette", "load", "layout",
                       "features", "inference", "render", "footer">>

\* C10: in an open session the theme is 'Dark' or 'Light', and it is 'Dark'
\* exactly when the number of toggle_theme calls of the session is even; a
\* new session starts with 'Dark'.
C10_ThemeParity ==
    theme # Unset =>
        /\ theme \in {"Dark", "Light"}
        /\ theme = "Dark" <=> toggles % 2 = 0

C10_Witness ==
    /\ toggles = 2
    /\ theme = "Dark"
    /\ user_address # <<>>
    /\ Ran /\ page.outcome = "idle"

====
